---- MODULE Spec2Model ----
(***************************************************************************)
(* A model of the document ingestion pipeline (app/core/                   *)
(* document_processor.py) and of the embedding provider cache              *)
(* (app/core/embeddings.py).                                               *)
(*                                                                         *)
(* Strings are sequences of one-character strings, so that suffix          *)
(* extraction, lower-casing, whitespace stripping and splitting are        *)
(* computed character by character as the code computes them.              *)
(***************************************************************************)
EXTENDS Integers, Sequences, FiniteSets, TLC

(***************************************************************************)
(* Bounds of the model.                                                    *)
(***************************************************************************)
MaxTextLen == 4
MaxChunkSize == 3
MaxCalls == 2
MaxThreads == 3

(***************************************************************************)
(* Characters and strings.                                                 *)
(***************************************************************************)
NL == "\n"

\* The characters texts are drawn from: two letters, and every character
\* that occurs in one of the splitter's separators.
Alphabet == {"a", "b", " ", ".", NL}

\* str.strip() removes these (the whitespace of the alphabet).
Whitespace == {" ", NL}

RECURSIVE Concat(_)
\* "".join(docs)
Concat(ss) == IF ss = <<>> THEN <<>> ELSE Head(ss) \o Concat(Tail(ss))

RECURSIVE LStrip(_)
LStrip(s) ==
    IF s # <<>> /\ Head(s) \in Whitespace THEN LStrip(Tail(s)) ELSE s

RECURSIVE RStrip(_)
RStrip(s) ==
    IF s # <<>> /\ s[Len(s)] \in Whitespace
    THEN RStrip(SubSeq(s, 1, Len(s) - 1))
    ELSE s

\* str.strip()
Strip(s) == RStrip(LStrip(s))

\* All strings over alphabet A of length at most n.
RECURSIVE StringsUpTo(_, _)
StringsUpTo(A, n) ==
    IF n = 0 THEN {<<>>}
    ELSE LET shorter == StringsUpTo(A, n - 1)
         IN  shorter \cup {Append(s, c) : s \in shorter, c \in A}

(***************************************************************************)
(* RecursiveCharacterTextSplitter, as DocumentProcessor configures it:     *)
(* length_function = len, keep_separator and strip_whitespace at their     *)
(* defaults (True), separators "\n\n", "\n", ". ", " ", "".                *)
(***************************************************************************)
Separators == << <<NL, NL>>, <<NL>>, <<".", " ">>, <<" ">>, <<>> >>

\* The separator occurs in text at position i.
MatchAt(text, sep, i) ==
    /\ i + Len(sep) - 1 <= Len(text)
    /\ SubSeq(text, i, i + Len(sep) - 1) = sep

\* re.search(re.escape(sep), text)
Occurs(text, sep) == \E i \in 1..Len(text) : MatchAt(text, sep, i)

RECURSIVE MatchStarts(_, _, _)
\* The starts of the non-overlapping matches of sep, left to right, as
\* re.split finds them.
MatchStarts(text, sep, from) ==
    IF from + Len(sep) - 1 > Len(text) THEN <<>>
    ELSE IF MatchAt(text, sep, from)
         THEN <<from>> \o MatchStarts(text, sep, from + Len(sep))
         ELSE MatchStarts(text, sep, from + 1)

\* _split_text_with_regex with keep_separator = True: each separator stays
\* at the start of the piece that follows it; empty pieces are dropped.
\* With the empty separator the text is cut into its characters.
SplitWithRegex(text, sep) ==
    IF sep = <<>>
    THEN [i \in 1..Len(text) |-> <<text[i]>>]
    ELSE LET ms == MatchStarts(text, sep, 1)
             n == Len(ms)
             from(k) == IF k = 0 THEN 1 ELSE ms[k]
             to(k) == IF k = n THEN Len(text) ELSE ms[k + 1] - 1
             pieces == [k \in 1..(n + 1) |-> SubSeq(text, from(k - 1), to(k - 1))]
         IN  SelectSeq(pieces, LAMBDA p : p # <<>>)

\* _join_docs with the empty join separator: the stripped concatenation, or
\* nothing when that is empty.
JoinDocs(cur) ==
    LET text == Strip(Concat(cur))
    IN  IF text = <<>> THEN <<>> ELSE <<text>>

\* The condition of the while loop of _merge_splits (KeepPoppingMutant: the
\* loop without its bound on the overlap).
KeepPoppingMutant(total, len, chunk_size, chunk_overlap) ==
    total + len > chunk_size /\ total > 0

KeepPopping(total, len, chunk_size, chunk_overlap) ==
    total > chunk_overlap \/ (total + len > chunk_size /\ total > 0)

RECURSIVE PopFront(_, _, _, _, _)
\* The while loop of _merge_splits: drop pieces from the front of the current
\* chunk until what is kept is no longer than the overlap and the next piece fits.
PopFront(cur, total, len, chunk_size, chunk_overlap) ==
    IF KeepPopping(total, len, chunk_size, chunk_overlap)
    THEN PopFront(Tail(cur), total - Len(Head(cur)), len, chunk_size, chunk_overlap)
    ELSE [cur |-> cur, total |-> total]

\* The test of _merge_splits that closes the current chunk before piece d
\* (MergeOverflowsMutant: the test without the length of d;
\* MergeOverflowsOffByOne: the test with >= for >).
MergeOverflowsMutant(total, len, chunk_size) == total > chunk_size

MergeOverflowsOffByOne(total, len, chunk_size) == total + len >= chunk_size

MergeOverflows(total, len, chunk_size) == total + len > chunk_size

RECURSIVE MergeFrom(_, _, _, _, _, _, _)
MergeFrom(splits, i, docs, cur, total, chunk_size, chunk_overlap) ==
    IF i > Len(splits) THEN docs \o JoinDocs(cur)
    ELSE LET d == splits[i]
             closing == MergeOverflows(total, Len(d), chunk_size) /\ cur # <<>>
             kept == IF closing
                     THEN PopFront(cur, total, Len(d), chunk_size, chunk_overlap)
                     ELSE [cur |-> cur, total |-> total]
             docs2 == IF closing THEN docs \o JoinDocs(cur) ELSE docs
         IN  MergeFrom(splits, i + 1, docs2, Append(kept.cur, d),
                       kept.total + Len(d), chunk_size, chunk_overlap)

\* _merge_splits(splits, "")
MergeSplits(splits, chunk_size, chunk_overlap) ==
    MergeFrom(splits, 1, <<>>, <<>>, 0, chunk_size, chunk_overlap)

\* The index of the separator _split_text uses: the first one that occurs in
\* the text, the empty separator (always last) otherwise.
RECURSIVE PickSeparator(_, _, _)
PickSeparator(text, seps, i) ==
    IF i >= Len(seps) \/ seps[i] = <<>> \/ Occurs(text, seps[i])
    THEN i
    ELSE PickSeparator(text, seps, i + 1)

RECURSIVE SplitText(_, _, _, _)
RECURSIVE SplitPieces(_, _, _, _, _, _, _)

\* The loop of _split_text over the pieces: short pieces are collected and
\* merged, a piece not shorter than chunk_size is split again with the
\* remaining separators (or kept whole when none remains).
SplitPieces(splits, i, good, final, new_seps, chunk_size, chunk_overlap) ==
    LET flush == IF good = <<>> THEN <<>>
                 ELSE MergeSplits(good, chunk_size, chunk_overlap)
    IN  IF i > Len(splits) THEN final \o flush
        ELSE LET s == splits[i]
             IN  IF Len(s) < chunk_size
                 THEN SplitPieces(splits, i + 1, Append(good, s), final,
                                  new_seps, chunk_size, chunk_overlap)
                 ELSE SplitPieces(splits, i + 1, <<>>,
                                  final \o flush \o
                                    (IF new_seps = <<>> THEN <<s>>
                                     ELSE SplitText(s, new_seps, chunk_size, chunk_overlap)),
                                  new_seps, chunk_size, chunk_overlap)

\* RecursiveCharacterTextSplitter._split_text(text, separators)
SplitText(text, seps, chunk_size, chunk_overlap) ==
    LET k == PickSeparator(text, seps, 1)
        sep == seps[k]
        new_seps == IF sep = <<>> THEN <<>> ELSE SubSeq(seps, k + 1, Len(seps))
    IN  SplitPieces(SplitWithRegex(text, sep), 1, <<>>, <<>>, new_seps,
                    chunk_size, chunk_overlap)

(***************************************************************************)
(* Documents: page_content and metadata.  The metadata carries the source  *)
(* and the position of the unit in its file (the page of a PDF, the row of *)
(* a CSV file).                                                            *)
(***************************************************************************)
\* An optional value: None, or Some(x) holding x.
None == <<>>

Some(x) == <<x>>

Val(o) == o[1]

Document(text, source, page) ==
    [page_content |-> text, metadata |-> [source |-> source, page |-> page]]

\* TextSplitter.create_documents for one document: one chunk document per
\* chunk of its text, each with a copy of the document's metadata.
ChunksOf(proc, doc) ==
    LET texts == SplitText(doc.page_content, Separators,
                           proc.chunk_size, proc.chunk_overlap)
    IN  [k \in 1..Len(texts) |->
            [page_content |-> texts[k], metadata |-> doc.metadata]]

RECURSIVE SplitDocuments(_, _)
\* DocumentProcessor.split_documents: text_splitter.split_documents(documents),
\* the chunks of every document, in the documents' order.
SplitDocuments(proc, docs) ==
    IF docs = <<>> THEN <<>>
    ELSE ChunksOf(proc, Head(docs)) \o SplitDocuments(proc, Tail(docs))

(***************************************************************************)
(* Construction of a DocumentProcessor.                                    *)
(***************************************************************************)
\* The process-wide configuration (get_settings()): default chunk_size and
\* chunk_overlap, with chunk_overlap < chunk_size.
Settings ==
    {st \in [chunk_size : 1..MaxChunkSize, chunk_overlap : 0..(MaxChunkSize - 1)] :
        st.chunk_overlap < st.chunk_size}

\* The values a caller may pass for chunk_size or chunk_overlap.
ArgValues == {None} \cup {Some(n) : n \in (-1)..MaxChunkSize}

\* Python's `x or default` on int | None: None and 0 are falsy.
OrDefault(x, default) == IF x = None \/ x = Some(0) THEN default ELSE Val(x)

\* The chunk_size and chunk_overlap __init__ assigns.
EffectiveConfig(a, st) ==
    [chunk_size |-> OrDefault(a.chunk_size, st.chunk_size),
     chunk_overlap |-> OrDefault(a.chunk_overlap, st.chunk_overlap)]

\* The splitter's constructor (TextSplitter.__init__) raises ValueError for
\* chunk_size <= 0, for chunk_overlap < 0 and for chunk_overlap > chunk_size;
\* chunk_overlap = chunk_size passes.
SplitterAccepts(cfg) ==
    /\ cfg.chunk_size > 0
    /\ cfg.chunk_overlap >= 0
    /\ cfg.chunk_overlap <= cfg.chunk_size

\* The processors DocumentProcessor(...) can yield under some configuration.
Processors ==
    {cfg \in {EffectiveConfig([chunk_size |-> cs, chunk_overlap |-> co], st) :
                 cs \in ArgValues, co \in ArgValues, st \in Settings} :
        SplitterAccepts(cfg)}

VARIABLES
    settings,       \* the process-wide defaults, or None where they are not read
    args,           \* the arguments of DocumentProcessor(...), None before the call
    processor,      \* the constructed processor's chunk_size and chunk_overlap
    ctor_error,     \* the exception __init__ raised, None if none
    documents,      \* the argument of split_documents
    chunked_docs,   \* what split_documents returned
    rechunked,      \* what split_documents returned for chunked_docs
    cache,          \* the lru_cache entry of get_embedding_model, None if empty
    thread,         \* per thread: where it is in a get_embedding_model call
    constructed,    \* how many OpenAIEmbeddings clients were constructed
    first,          \* the instance the first completed call returned
    calls,          \* per call of process_upload / process_file: its progress
    tmpfiles        \* the temporary directory: per name, no file or its content

ctorVars == <<settings, args, processor, ctor_error>>
splitVars == <<documents, chunked_docs, rechunked>>
embedVars == <<cache, thread, constructed, first>>
uploadVars == <<calls, tmpfiles>>
vars == <<ctorVars, splitVars, embedVars, uploadVars>>

(***************************************************************************)
(* SpecCtor: DocumentProcessor(chunk_size, chunk_overlap) under every      *)
(* configuration.                                                          *)
(***************************************************************************)
SplitIdle == documents = None /\ chunked_docs = None /\ rechunked = None

Calls == 1..MaxCalls

\* The names NamedTemporaryFile can draw.
TmpNames == 1..MaxCalls

\* A call slot before process_upload / process_file is called in it.
IdleCall ==
    [pc |-> "idle", op |-> "none", filename |-> <<>>, read |-> FALSE,
     stream |-> None, tmp |-> None, loader |-> None, docs |-> None,
     result |-> None, error |-> None]

UploadIdle ==
    /\ calls = [c \in Calls |-> IdleCall]
    /\ tmpfiles = [n \in TmpNames |-> None]

Threads == 1..MaxThreads

\* A thread that has not called get_embedding_model.
IdleThread ==
    [pc |-> "idle", via |-> "direct", late |-> FALSE, local |-> None, held |-> None]

\* The embedding cache before its first use.
EmbedIdle ==
    /\ cache = None
    /\ thread = [t \in Threads |-> IdleThread]
    /\ constructed = 0
    /\ first = None

InitCtor ==
    /\ settings \in {Some(st) : st \in Settings}
    /\ args = None
    /\ processor = None
    /\ ctor_error = None
    /\ SplitIdle
    /\ EmbedIdle
    /\ UploadIdle

\* DocumentProcessor.__init__
Construct(cs, co) ==
    /\ args = None
    /\ LET a == [chunk_size |-> cs, chunk_overlap |-> co]
           cfg == EffectiveConfig(a, Val(settings))
       IN  /\ args' = Some(a)
           /\ IF SplitterAccepts(cfg)
              THEN processor' = Some(cfg) /\ ctor_error' = None
              ELSE processor' = None /\ ctor_error' = Some("ValueError")
    /\ UNCHANGED <<settings, splitVars, embedVars, uploadVars>>

NextCtor == \E cs \in ArgValues, co \in ArgValues : Construct(cs, co)

SpecCtor == InitCtor /\ [][NextCtor]_vars

(***************************************************************************)
(* SpecSplit: split_documents of a constructed processor, on every input   *)
(* within the bounds, and again on its own output.                         *)
(***************************************************************************)
Texts == StringsUpTo(Alphabet, MaxTextLen)

\* A second unit, for inputs of more than one unit.
OtherUnit == <<"b", " ", "a">>

\* The inputs of split_documents: one unit of any text, or a shorter first
\* unit followed by a second one.
InputDocuments ==
    {<<Document(t, "f", 0)>> : t \in Texts} \cup
    {<<Document(t, "f", 0), Document(OtherUnit, "f", 1)>> :
        t \in StringsUpTo(Alphabet, MaxTextLen - 2)}

InitSplit ==
    /\ settings = None
    /\ args = None
    /\ processor \in {Some(cfg) : cfg \in Processors}
    /\ ctor_error = None
    /\ SplitIdle
    /\ EmbedIdle
    /\ UploadIdle

\* processor.split_documents(docs)
Split(docs) ==
    /\ documents = None
    /\ documents' = Some(docs)
    /\ chunked_docs' = Some(SplitDocuments(Val(processor), docs))
    /\ UNCHANGED <<ctorVars, rechunked, embedVars, uploadVars>>

\* processor.split_documents(chunked_docs)
ReSplit ==
    /\ chunked_docs # None
    /\ rechunked = None
    /\ rechunked' = Some(SplitDocuments(Val(processor), Val(chunked_docs)))
    /\ UNCHANGED <<ctorVars, documents, chunked_docs, embedVars, uploadVars>>

NextSplit == (\E docs \in InputDocuments : Split(docs)) \/ ReSplit

SpecSplit == InitSplit /\ [][NextSplit]_vars
(***************************************************************************)
(* SpecEmbed: threads calling get_embedding_model, directly or through     *)
(* EmbeddingService().  functools.lru_cache looks the key up, calls the    *)
(* function on a miss without holding a lock, and then stores the result   *)
(* unless the key was stored meanwhile; the lookup and the store are each  *)
(* atomic, the function body is not.                                       *)
(***************************************************************************)
InitEmbed ==
    /\ settings = None
    /\ args = None
    /\ processor = None
    /\ ctor_error = None
    /\ SplitIdle
    /\ EmbedIdle
    /\ UploadIdle

\* The call completes with instance inst.
Returned(t, inst) ==
    /\ thread' = [thread EXCEPT ![t].pc = "done", ![t].held = inst,
                                ![t].local = None]
    /\ first' = IF first = None THEN inst ELSE first

\* get_embedding_model() is called (by EmbeddingService.__init__ when via is
\* "service"): a cache hit returns the cached instance, a miss enters the
\* function body.
Call(t, via) ==
    /\ thread[t].pc \in {"idle", "done"}
    /\ IF cache # None
       THEN /\ thread' = [thread EXCEPT ![t] =
                   [pc |-> "done", via |-> via, late |-> first # None,
                    local |-> None, held |-> cache]]
            /\ first' = IF first = None THEN cache ELSE first
       ELSE /\ thread' = [thread EXCEPT ![t] =
                   [pc |-> "body", via |-> via, late |-> first # None,
                    local |-> None, held |-> None]]
            /\ first' = first
    /\ UNCHANGED <<cache, constructed, ctorVars, splitVars, uploadVars>>

\* The body of get_embedding_model: a new OpenAIEmbeddings client.
ConstructModel(t) ==
    /\ thread[t].pc = "body"
    /\ constructed' = constructed + 1
    /\ thread' = [thread EXCEPT ![t].pc = "store",
                                ![t].local = Some(constructed + 1)]
    /\ UNCHANGED <<cache, first, ctorVars, splitVars, uploadVars>>

\* The cache entry after the wrapper has the result of the function
\* (CacheAfterStoreMutant: a wrapper that always overwrites the entry).
CacheAfterStoreMutant(entry, result) == result

CacheAfterStore(entry, result) == IF entry = None THEN result ELSE entry

\* Back in the lru_cache wrapper: the result is stored unless the key is
\* there already, and returned in either case.
Store(t) ==
    /\ thread[t].pc = "store"
    /\ cache' = CacheAfterStore(cache, thread[t].local)
    /\ Returned(t, thread[t].local)
    /\ UNCHANGED <<constructed, ctorVars, splitVars, uploadVars>>

NextEmbed ==
    \E t \in Threads :
        \/ \E via \in {"direct", "service"} : Call(t, via)
        \/ ConstructModel(t)
        \/ Store(t)

SpecEmbed == InitEmbed /\ [][NextEmbed]_vars

(***************************************************************************)
(* Paths and extensions.                                                   *)
(***************************************************************************)
\* The last position of character ch in p, 0 if there is none (str.rfind).
RFind(p, ch) ==
    LET at == {i \in 1..Len(p) : p[i] = ch}
    IN  IF at = {} THEN 0 ELSE CHOOSE i \in at : \A j \in at : j <= i

\* Path(p).name: the final component.
PathName(p) == SubSeq(p, RFind(p, "/") + 1, Len(p))

\* Path(p).suffix: from the last dot of the name, unless the name starts or
\* ends with that dot.
Suffix(p) ==
    LET name == PathName(p)
        i == RFind(name, ".")
    IN  IF i > 1 /\ i < Len(name) THEN SubSeq(name, i, Len(name)) ELSE <<>>

\* str.lower() on the characters file names are made of.
LowerChar(ch) ==
    CASE ch = "P" -> "p"
      [] ch = "D" -> "d"
      [] ch = "F" -> "f"
      [] OTHER -> ch

Lower(p) == [i \in 1..Len(p) |-> LowerChar(p[i])]

TXT == <<".", "t", "x", "t">>
PDF == <<".", "p", "d", "f">>
CSV == <<".", "c", "s", "v">>

\* SUPPORTED_EXTENSIONS (ExtensionsWithDocx: the set with an extension no
\* loader exists for).
ExtensionsWithDocx == {TXT, PDF, CSV, <<".", "d", "o", "c", "x">>}

SUPPORTED_EXTENSIONS == {TXT, PDF, CSV}

\* The file names and paths callers pass.
Filenames ==
    { <<"r", ".", "t", "x", "t">>,
      <<"r", ".", "P", "D", "F">>,
      <<"d", "/", "r", ".", "c", "s", "v">>,
      <<"r", ".", "d", "o", "c", "x">>,
      <<".", "t", "x", "t">>,
      <<"r", ".", "t", "x", "t", ".">>,
      <<"d", ".", "p", "d", "f", "/", "r">> }

\* The path of the temporary file of name n: NamedTemporaryFile(suffix=ext).
TmpPath(n, ext) ==
    <<"/", "t", "m", "p", "/", "t", "m", "p">> \o <<ToString(n)>> \o ext

(***************************************************************************)
(* File contents and the format loaders.  A content is what the loaders    *)
(* make of the bytes: whether they decode, and the parts (pages, rows) they *)
(* hold.                                                                   *)
(***************************************************************************)
Content(valid, parts) == [valid |-> valid, parts |-> parts]

EmptyContent == Content(TRUE, <<>>)

Contents ==
    { Content(FALSE, <<>>),
      EmptyContent,
      Content(TRUE, << <<"a", " ", "b">> >>),
      Content(TRUE, << <<"a", "b", "a">>, <<"b", ".", " ", "a">> >>) }

RECURSIVE JoinLines(_)
\* The parts as the lines of one text.
JoinLines(parts) ==
    IF parts = <<>> THEN <<>>
    ELSE IF Len(parts) = 1 THEN parts[1]
    ELSE parts[1] \o <<NL>> \o JoinLines(Tail(parts))

\* load_text: TextLoader(path, encoding="utf-8").load(), one document.
load_text(content, path) ==
    << [page_content |-> JoinLines(content.parts),
        metadata |-> [source |-> path]] >>

\* load_pdf: PyPDFLoader(path).load(), one document per page.
load_pdf(content, path) ==
    [i \in 1..Len(content.parts) |-> Document(content.parts[i], path, i - 1)]

\* load_csv: CSVLoader(path, encoding="utf-8").load(), one document per row.
load_csv(content, path) ==
    [i \in 1..Len(content.parts) |->
        [page_content |-> content.parts[i],
         metadata |-> [source |-> path, row |-> i - 1]]]

\* The outcome of a step that may raise.
Raised(e) == [error |-> Some(e), docs |-> None, loader |-> None]

Loaded(docs, ext) == [error |-> None, docs |-> Some(docs), loader |-> Some(ext)]

\* load_file(path), file being what is at that path (None: no such file).
load_file(path, file) ==
    LET extension == Lower(Suffix(path))
    IN  IF extension \notin SUPPORTED_EXTENSIONS
        THEN Raised("ValueError: unsupported file extension")
        ELSE IF file = None
        THEN [Raised("FileNotFoundError") EXCEPT !.loader = Some(extension)]
        ELSE IF ~Val(file).valid
        THEN [Raised("loader error") EXCEPT !.loader = Some(extension)]
        ELSE IF extension = PDF THEN Loaded(load_pdf(Val(file), path), extension)
        ELSE IF extension = TXT THEN Loaded(load_text(Val(file), path), extension)
        ELSE Loaded(load_csv(Val(file), path), extension)

\* for doc in documents: doc.metadata["source"] = filename
\* (StampSourceMutant: the loop left out).
StampSourceMutant(docs, filename) == docs

StampSource(docs, filename) ==
    [i \in 1..Len(docs) |-> [docs[i] EXCEPT !.metadata.source = filename]]

(***************************************************************************)
(* Spec: concurrent calls of process_upload and process_file on a          *)
(* processor built as the upload endpoint builds it, DocumentProcessor().  *)
(***************************************************************************)
Init ==
    /\ settings \in {Some(st) : st \in Settings}
    /\ args = Some([chunk_size |-> None, chunk_overlap |-> None])
    /\ processor = Some(EffectiveConfig(Val(args), Val(settings)))
    /\ ctor_error = None
    /\ SplitIdle
    /\ EmbedIdle
    /\ UploadIdle

Fail(c, e) == [calls[c] EXCEPT !.pc = "raised", !.error = Some(e)]

\* A variant of FreeNames that hands out names whether or not a file of
\* that name exists.
FreeNamesMutant == TmpNames

\* The names NamedTemporaryFile can create a file under: it opens the file
\* exclusively, so a name some existing file has is never chosen.
FreeNames == {n \in TmpNames : tmpfiles[n] = None}

\* load_from_uploaded_file(file, filename), entered by a call of kind op, up
\* to the creation of the temporary file: the extension check, then
\* NamedTemporaryFile.
EnterUpload(c, op, filename) ==
    /\ calls[c].pc = "idle"
    /\ LET extension == Lower(Suffix(filename))
           call == [calls[c] EXCEPT !.op = op, !.filename = filename]
       IN  IF extension \notin SUPPORTED_EXTENSIONS
           THEN /\ calls' = [calls EXCEPT ![c] =
                       [call EXCEPT !.pc = "raised",
                                    !.error = Some("ValueError: unsupported file extension")]]
                /\ UNCHANGED tmpfiles
           ELSE \E n \in FreeNames :
                   /\ tmpfiles' = [tmpfiles EXCEPT ![n] =
                                      Some([by |-> c, data |-> EmptyContent])]
                   /\ calls' = [calls EXCEPT ![c] =
                                   [call EXCEPT !.pc = "with", !.tmp = Some(n)]]
    /\ UNCHANGED <<ctorVars, splitVars, embedVars>>

\* process_upload(file, filename) up to the creation of the temporary file.
ProcessUpload(c, filename) == EnterUpload(c, "upload", filename)

\* The upload route up to the creation of the temporary file: a request
\* without a filename is answered 400 at once; otherwise a DocumentProcessor
\* is built from the settings and load_from_uploaded_file is called with the
\* request's stream and filename.
UploadDocument(c, filename) ==
    IF filename = <<>>
    THEN /\ calls[c].pc = "idle"
         /\ calls' = [calls EXCEPT ![c] =
                [calls[c] EXCEPT !.op = "route", !.pc = "raised",
                                 !.error = Some("HTTPException: Filename is required")]]
         /\ UNCHANGED <<tmpfiles, ctorVars, splitVars, embedVars>>
    ELSE EnterUpload(c, "route", filename)

\* tmp_file.write(file.read()) inside the with block; leaving the block,
\* normally or by an exception, closes the file (delete=False).
WriteUpload(c, content, outcome) ==
    /\ calls[c].pc = "with"
    /\ LET n == Val(calls[c].tmp)
           call == [calls[c] EXCEPT !.read = TRUE]
           got == [call EXCEPT !.stream = Some(content)]
       IN  CASE outcome = "read raises" ->
                  /\ calls' = [calls EXCEPT ![c] =
                                  [call EXCEPT !.pc = "raised", !.error = Some("OSError: read")]]
                  /\ UNCHANGED tmpfiles
             [] outcome = "write raises" ->
                  /\ calls' = [calls EXCEPT ![c] =
                                  [got EXCEPT !.pc = "raised", !.error = Some("OSError: write")]]
                  /\ UNCHANGED tmpfiles
             [] OTHER ->
                  /\ calls' = [calls EXCEPT ![c] = [got EXCEPT !.pc = "try"]]
                  /\ tmpfiles' = [tmpfiles EXCEPT ![n] =
                                     IF tmpfiles[n] = None THEN None
                                     ELSE Some([Val(tmpfiles[n]) EXCEPT !.data = content])]
    /\ UNCHANGED <<ctorVars, splitVars, embedVars>>

\* The try block: load_file(tmp_path), then the source of every document is
\* set to the uploaded file's name.
LoadUpload(c) ==
    /\ calls[c].pc = "try"
    /\ LET n == Val(calls[c].tmp)
           tmp_path == TmpPath(n, Lower(Suffix(calls[c].filename)))
           file == IF tmpfiles[n] = None THEN None ELSE Some(Val(tmpfiles[n]).data)
           got == load_file(tmp_path, file)
       IN  calls' = [calls EXCEPT ![c] =
               [calls[c] EXCEPT
                   !.pc = "finally",
                   !.loader = got.loader,
                   !.error = got.error,
                   !.docs = IF got.docs = None THEN None
                            ELSE Some(StampSource(Val(got.docs), calls[c].filename))]]
    /\ UNCHANGED <<tmpfiles, ctorVars, splitVars, embedVars>>

\* The finally block: Path(tmp_path).unlink(missing_ok=True); then
\* load_from_uploaded_file returns the documents or the exception goes on.
Unlink(c) ==
    /\ calls[c].pc = "finally"
    /\ tmpfiles' = [tmpfiles EXCEPT ![Val(calls[c].tmp)] = None]
    /\ calls' = [calls EXCEPT ![c].pc =
                    IF calls[c].error = None THEN "loaded" ELSE "raised"]
    /\ UNCHANGED <<ctorVars, splitVars, embedVars>>

\* process_file(path) up to the return of load_file; the file at the path
\* is whatever is there (None: nothing).
ProcessFile(c, path, file) ==
    /\ calls[c].pc = "idle"
    /\ LET got == load_file(path, file)
       IN  calls' = [calls EXCEPT ![c] =
               [calls[c] EXCEPT
                   !.op = "file",
                   !.filename = path,
                   !.pc = IF got.error = None THEN "loaded" ELSE "raised",
                   !.loader = got.loader,
                   !.error = got.error,
                   !.docs = got.docs]]
    /\ UNCHANGED <<tmpfiles, ctorVars, splitVars, embedVars>>

\* split_documents(documents) at the end of process_upload and of
\* process_file, and the return of the chunks; the splitter may raise.
SplitLoaded(c, raises) ==
    /\ calls[c].pc = "loaded"
    /\ calls[c].op \in {"upload", "file"}
    /\ calls' = [calls EXCEPT ![c] =
           IF raises
           THEN Fail(c, "splitter error")
           ELSE [calls[c] EXCEPT
                    !.pc = "returned",
                    !.result = Some(SplitDocuments(Val(processor), Val(calls[c].docs)))]]
    /\ UNCHANGED <<tmpfiles, ctorVars, splitVars, embedVars>>

\* The rest of the upload route once load_from_uploaded_file has returned:
\* a VectorStoreService is built and add_documents is called with what
\* load_from_uploaded_file returned; result is the batch the vector store
\* received. The vector store may raise.
AddDocuments(c, raises) ==
    /\ calls[c].pc = "loaded"
    /\ calls[c].op = "route"
    /\ calls' = [calls EXCEPT ![c] =
           IF raises
           THEN Fail(c, "vector store error")
           ELSE [calls[c] EXCEPT !.pc = "returned", !.result = calls[c].docs]]
    /\ UNCHANGED <<tmpfiles, ctorVars, splitVars, embedVars>>

\* The status of the response to a finished request of the upload route:
\* 200 on return, 400 for the missing filename and for a ValueError,
\* 500 for every other exception.
Status(c) ==
    CASE calls[c].pc = "returned" -> 200
      [] calls[c].error \in {Some("HTTPException: Filename is required"),
                             Some("ValueError: unsupported file extension")} -> 400
      [] OTHER -> 500

Next ==
    \E c \in Calls :
        \/ \E filename \in Filenames : ProcessUpload(c, filename)
        \/ \E content \in Contents,
              outcome \in {"ok", "read raises", "write raises"} :
                 WriteUpload(c, content, outcome)
        \/ LoadUpload(c)
        \/ Unlink(c)
        \/ \E path \in Filenames, file \in {None} \cup {Some(x) : x \in Contents} :
              ProcessFile(c, path, file)
        \/ \E raises \in BOOLEAN : SplitLoaded(c, raises)
        \/ \E filename \in Filenames \cup {<<>>} : UploadDocument(c, filename)
        \/ \E raises \in BOOLEAN : AddDocuments(c, raises)

Spec == Init /\ [][Next]_vars

(***************************************************************************)
(* Properties of the splitter (SpecSplit).                                 *)
(***************************************************************************)
ChunkSize == Val(processor).chunk_size
ChunkOverlap == Val(processor).chunk_overlap

Text(docs, i) == docs[i].page_content

HasWhitespace(t) == \E i \in 1..Len(t) : t[i] \in Whitespace

\* The last n and the first n characters of a text.
Trailing(t, n) == SubSeq(t, Len(t) - n + 1, Len(t))
Leading(t, n) == SubSeq(t, 1, n)

\* Chunks i and i+1 of docs come from the same source unit.
SameUnit(docs, i) == docs[i].metadata = docs[i + 1].metadata

\* The text of the unit chunk i was cut from.
UnitText(i) ==
    Val(documents)[Val(chunked_docs)[i].metadata.page + 1].page_content

\* Chunks i and i+1 share chunk_overlap characters.
Overlapping(docs, i) ==
    Trailing(Text(docs, i), ChunkOverlap) = Leading(Text(docs, i + 1), ChunkOverlap)

\* C5: with chunk_overlap < chunk_size, no chunk split_documents returns is
\* longer than chunk_size (the separator list ends with the empty separator,
\* so no text is unsplittable).
ChunksWithinChunkSize ==
    (chunked_docs # None /\ ChunkOverlap < ChunkSize) =>
        \A i \in 1..Len(Val(chunked_docs)) :
            Len(Text(Val(chunked_docs), i)) <= ChunkSize

\* A unit longer than chunk_size was cut into several chunks, one of them
\* exactly chunk_size long.
ChunksWithinChunkSizeWitness ==
    /\ chunked_docs # None
    /\ ChunkOverlap < ChunkSize
    /\ Len(Text(Val(documents), 1)) > ChunkSize
    /\ Len(Val(chunked_docs)) >= 2
    /\ \E i \in 1..Len(Val(chunked_docs)) :
          Len(Text(Val(chunked_docs), i)) = ChunkSize

\* C6 as stated: adjacent chunks of one unit that are both at least
\* chunk_overlap long share exactly chunk_overlap characters (here for the
\* configurations with chunk_overlap < chunk_size only).
AdjacentChunksOverlap ==
    (chunked_docs # None /\ ChunkOverlap < ChunkSize) =>
        \A i \in 1..(Len(Val(chunked_docs)) - 1) :
            (/\ SameUnit(Val(chunked_docs), i)
             /\ Len(Text(Val(chunked_docs), i)) >= ChunkOverlap
             /\ Len(Text(Val(chunked_docs), i + 1)) >= ChunkOverlap)
            => Overlapping(Val(chunked_docs), i)

\* C6 as amended: the same, for units whose text holds no whitespace (so
\* that the splitter cuts between single characters and strips nothing) and
\* chunk_overlap < chunk_size.
AdjacentChunksOverlapNoWhitespace ==
    (chunked_docs # None /\ ChunkOverlap < ChunkSize) =>
        \A i \in 1..(Len(Val(chunked_docs)) - 1) :
            (/\ SameUnit(Val(chunked_docs), i)
             /\ ~HasWhitespace(UnitText(i))
             /\ Len(Text(Val(chunked_docs), i)) >= ChunkOverlap
             /\ Len(Text(Val(chunked_docs), i + 1)) >= ChunkOverlap)
            => Overlapping(Val(chunked_docs), i)

\* Two different adjacent chunks of a unit without whitespace, under a
\* positive overlap.
AdjacentChunksOverlapWitness ==
    /\ chunked_docs # None
    /\ 0 < ChunkOverlap
    /\ ChunkOverlap < ChunkSize
    /\ \E i \in 1..(Len(Val(chunked_docs)) - 1) :
          /\ SameUnit(Val(chunked_docs), i)
          /\ ~HasWhitespace(UnitText(i))
          /\ Text(Val(chunked_docs), i) # Text(Val(chunked_docs), i + 1)
          /\ Trailing(Text(Val(chunked_docs), i), ChunkOverlap) = <<"a">>

ShortTexts(docs) == \A i \in 1..Len(docs) : Len(Text(docs, i)) <= ChunkSize

\* C7 as stated: units no longer than chunk_size are returned unchanged
\* (here for the configurations with chunk_overlap < chunk_size only).
ShortUnitsUnchanged ==
    (documents # None /\ ShortTexts(Val(documents)) /\ ChunkOverlap < ChunkSize) =>
        Val(chunked_docs) = Val(documents)

\* C7 as amended: the output of split_documents is returned unchanged by a
\* second split_documents, and so are units no longer than chunk_size whose
\* text is not empty and neither starts nor ends with whitespace.
Stripped(docs) ==
    \A i \in 1..Len(docs) : Text(docs, i) # <<>> /\ Strip(Text(docs, i)) = Text(docs, i)

SplitIdempotent ==
    /\ rechunked # None => Val(rechunked) = Val(chunked_docs)
    /\ (documents # None /\ ShortTexts(Val(documents)) /\ Stripped(Val(documents)))
          => Val(chunked_docs) = Val(documents)

\* A unit was cut into several chunks, which were split again; and two
\* short stripped units, one with a separator inside, went through a split.
SplitIdempotentWitness ==
    \/ /\ rechunked # None
       /\ Len(Val(documents)) = 1
       /\ Len(Val(chunked_docs)) >= 3
    \/ /\ documents # None
       /\ Len(Val(documents)) = 2
       /\ ShortTexts(Val(documents))
       /\ Stripped(Val(documents))

(***************************************************************************)
(* Properties of the constructor (SpecCtor).                               *)
(***************************************************************************)
\* C9: every constructed processor has chunk_overlap < chunk_size.
OverlapBelowChunkSize ==
    processor # None => ChunkOverlap < ChunkSize

\* C10: an argument that was supplied is the processor's effective value,
\* and the default is used for one that was not (here for the processors
\* built with a chunk_size that is None or positive only).
Effective(arg, value, default) ==
    IF arg = None THEN value = default ELSE value = Val(arg)

SuppliedArgumentsEffective ==
    (processor # None /\ Val(args).chunk_size # Some(0)) =>
        /\ Effective(Val(args).chunk_size, ChunkSize, Val(settings).chunk_size)
        /\ Effective(Val(args).chunk_overlap, ChunkOverlap, Val(settings).chunk_overlap)
(***************************************************************************)
(* Properties of the embedding cache (SpecEmbed).                          *)
(***************************************************************************)
Finished(t) == thread[t].pc = "done"

\* C2: once the callers of a concurrent first use have all returned, one
\* client has been constructed and every caller holds that instance.
SingleConstruction ==
    (/\ \E t \in Threads : Finished(t)
     /\ \A t \in Threads : thread[t].pc \in {"idle", "done"})
    => /\ constructed = 1
       /\ \A t, u \in Threads :
            (Finished(t) /\ Finished(u)) => thread[t].held = thread[u].held

\* C8: once a call has completed, the cache holds the instance that call
\* returned and keeps it; a call made later constructs nothing and returns
\* that instance, also into an EmbeddingService.
LaterCallsReturnCached ==
    first # None =>
        /\ cache = first
        /\ \A t \in Threads :
              thread[t].late =>
                  /\ thread[t].pc = "done"
                  /\ thread[t].held = first

\* An EmbeddingService created after the first call completed, while
\* another thread still holds a client of its own from the first use.
LaterCallsReturnCachedWitness ==
    \E t, u \in Threads :
        /\ thread[t].late
        /\ thread[t].via = "service"
        /\ Finished(t)
        /\ thread[t].held = first
        /\ Finished(u)
        /\ thread[u].held # first
(***************************************************************************)
(* Properties of process_upload and process_file (Spec).                   *)
(***************************************************************************)
Over(c) == calls[c].pc \in {"returned", "raised"}

\* Call c has a temporary file on disk.
HasTmpFile(c) ==
    \E n \in TmpNames : tmpfiles[n] # None /\ Val(tmpfiles[n]).by = c

\* C1: when a process_upload call has returned or raised, the temporary
\* file it created is gone.
TmpFileGoneAtExit ==
    \A c \in Calls : (calls[c].op = "upload" /\ Over(c)) => ~HasTmpFile(c)

\* C3: a call whose lower-cased suffix is none of .txt, .pdf, .csv raises
\* the unsupported-extension error, having read no stream, created no
\* temporary file and invoked no loader.
UnsupportedRejectedBeforeIO ==
    \A c \in Calls :
        (/\ calls[c].op \in {"upload", "file"}
         /\ Lower(Suffix(calls[c].filename)) \notin {TXT, PDF, CSV})
        => /\ calls[c].pc = "raised"
           /\ calls[c].error = Some("ValueError: unsupported file extension")
           /\ ~calls[c].read
           /\ calls[c].tmp = None
           /\ ~HasTmpFile(c)
           /\ calls[c].loader = None

\* A process_upload and a process_file call were both rejected, one for a
\* name whose only dot leads it, one for an extension outside the set.
UnsupportedRejectedWitness ==
    \E c, d \in Calls :
        /\ calls[c].op = "upload"
        /\ calls[c].pc = "raised"
        /\ calls[c].filename = <<".", "t", "x", "t">>
        /\ calls[d].op = "file"
        /\ calls[d].pc = "raised"
        /\ calls[d].filename = <<"r", ".", "d", "o", "c", "x">>

\* C4: every chunk a process_upload call returned has the caller's filename
\* as its source, not the path of the temporary file.
UploadSourceIsFilename ==
    \A c \in Calls :
        (calls[c].op = "upload" /\ calls[c].pc = "returned") =>
            \A i \in 1..Len(Val(calls[c].result)) :
                LET source == Val(calls[c].result)[i].metadata.source
                IN  /\ source = calls[c].filename
                    /\ source # TmpPath(Val(calls[c].tmp),
                                        Lower(Suffix(calls[c].filename)))

\* A PDF upload returned chunks of two pages, the first page cut in two.
UploadSourceWitness ==
    \E c \in Calls :
        /\ calls[c].op = "upload"
        /\ calls[c].pc = "returned"
        /\ calls[c].filename = <<"r", ".", "P", "D", "F">>
        /\ Len(Val(calls[c].result)) >= 3
        /\ Val(calls[c].result)[1].metadata.page = 0
        /\ Val(calls[c].result)[2].metadata.page = 0
        /\ Val(calls[c].result)[Len(Val(calls[c].result))].metadata.page = 1

\* C11: the batch the upload route passed to the vector store's
\* add_documents is what split_documents makes of the loaded documents,
\* never the loaded documents as the loader left them.
HandedOffWasSplit ==
    \A c \in Calls :
        (calls[c].op = "route" /\ Status(c) = 200) =>
            calls[c].result =
                Some(SplitDocuments(Val(processor), Val(calls[c].docs)))

\* Call c has created its temporary file and has not yet run its unlink.
InFlight(c) == calls[c].pc \in {"with", "try", "finally"}

\* What the loaders make of the stream call c read under the filename it
\* was given, as load_from_uploaded_file returns it.
OwnOutcome(c) ==
    LET got == load_file(calls[c].filename, calls[c].stream)
    IN  [got EXCEPT !.docs =
            IF got.docs = None THEN None
            ELSE Some(StampSource(Val(got.docs), calls[c].filename))]

\* C12: of concurrent uploads, identical filenames included, no two in
\* flight share a temporary path; the file of a call in flight is there, is
\* the one that call created and, once written, holds the bytes of that
\* call's stream; and what a call loaded and returned is what the loaders
\* and the splitter make of its own stream and filename.
UploadsIsolated ==
    \A c \in Calls :
        /\ InFlight(c) =>
              /\ tmpfiles[Val(calls[c].tmp)] # None
              /\ Val(tmpfiles[Val(calls[c].tmp)]).by = c
              /\ \A d \in Calls \ {c} :
                    InFlight(d) => calls[d].tmp # calls[c].tmp
              /\ calls[c].pc = "try" =>
                    Some(Val(tmpfiles[Val(calls[c].tmp)]).data) = calls[c].stream
        /\ (calls[c].op \in {"upload", "route"} /\ calls[c].loader # None) =>
              /\ calls[c].docs = OwnOutcome(c).docs
              /\ calls[c].loader = OwnOutcome(c).loader
              /\ calls[c].pc = "finally" => calls[c].error = OwnOutcome(c).error
              /\ OwnOutcome(c).error # None =>
                    calls[c].error = OwnOutcome(c).error
              /\ (calls[c].op = "upload" /\ calls[c].pc = "returned") =>
                    calls[c].result =
                        Some(SplitDocuments(Val(processor), Val(OwnOutcome(c).docs)))

\* Two process_upload calls of the same filename and different streams are
\* in flight under different temporary paths: one has loaded its documents
\* and is about to unlink, the other has written its file and is yet to
\* load it.
UploadsIsolatedWitness ==
    \E c, d \in Calls :
        /\ c # d
        /\ calls[c].op = "upload"
        /\ calls[d].op = "upload"
        /\ calls[c].filename = calls[d].filename
        /\ calls[c].pc = "finally"
        /\ calls[d].pc = "try"
        /\ calls[c].tmp # calls[d].tmp
        /\ calls[c].stream # calls[d].stream
        /\ calls[c].docs # None
        /\ Val(calls[c].docs) # <<>>
====
